---- MODULE Spec2Model ----
(***************************************************************************)
(* The geometry / graph engine of the skill sphere:                        *)
(*   src/unnamed/part_000          distributePointsOnSphere,               *)
(*                                 getVectorFromSpherical                  *)
(*   src/components/SkillSphere.tsx getEdgeControlPoint, computeConvexHull,*)
(*                                 computeNearestNeighborGraph,            *)
(*                                 useGraphData, SceneContent              *)
(*                                                                         *)
(* Numbers.  The program works on IEEE doubles; the model works on exact   *)
(* integers.  A position is a vector of integers counted in grid steps;    *)
(* the variable `unit` says how long the program's 1e-4 is in grid steps   *)
(* (a rational epsNum/epsDen), so that the epsilon test of the hull scan   *)
(* is an exact integer comparison.  Two resolutions are used: a fine one   *)
(* (one step = 5e-5, so that nodes within, on and beyond the epsilon band  *)
(* of a plane exist) and a coarse one (one step = 1/CoarseGrid) for nodes  *)
(* placed by the layout.  Rounding error of the doubles is not modelled.   *)
(*                                                                         *)
(* Strings.  A node id is a sequence of character codes ordered as the     *)
(* UTF-16 code units are: 0 is '-', 1..5 are 'a'..'e'.  Keys are built by  *)
(* concatenation exactly as the template strings of the source build them. *)
(*                                                                         *)
(* Colours.  A colour is a vector <<r, g, b>> of whole numbers 0..255; a    *)
(* node's colour is copied through the graph builders into its faces.  The *)
(* colour of an edge, a node's surfacePos and the capability it carries    *)
(* are copied through unread and never used by what is modelled here; they *)
(* are left out of the records.                                            *)
(***************************************************************************)
EXTENDS Integers, Sequences, FiniteSets

VARIABLES
    nodes,      \* NodeData[] handed to useGraphData: sequence of [id, pos]
    unit,       \* resolution of the positions: 1e-4 = epsNum/epsDen grid steps
    settings,   \* VisualSettings: connectionMode, connectionNeighbors, connectionStyle
    graph,      \* the { edges, faces } returned by useGraphData
    pc,         \* "input" before the graph is built, "done" after;
                \* "call" / "returned" around a call of one of the helpers
    call,       \* a call of a helper on its own: the function and its arguments;
                \* in the App, the handler that ran last and its arguments
    ret,        \* what that call returned; in a rendered scene, what SceneContent
                \* hands to SkillMesh: the geometryKey and the meshData
    capabilities,   \* App's state `capabilities`
    tasks,          \* App's state `tasks`
    memo        \* the dependency lists the useMemo hooks of SceneContent,
                \* useGraphData and SkillMesh keep from the last render, and the
                \* number of handlers that have run since

vars == <<nodes, unit, settings, graph, pc, call, ret, capabilities, tasks, memo>>

----------------------------------------------------------------------------
(* Bounds of the model *)

MaxNodes == 5

MaxNeighbors == 5

CoarseGrid == 4

MaxScore == 1

\* the largest count handed to distributePointsOnSphere on its own
MaxCount == 9

\* the longest face list handed to SkillMesh on its own
MaxFaces == 2

----------------------------------------------------------------------------
(* Small helpers *)

Abs(x) == IF x < 0 THEN -x ELSE x

\* Math.sign on a number that is not NaN
Sign(x) == IF x > 0 THEN 1 ELSE IF x < 0 THEN -1 ELSE 0

Min(a, b) == IF a < b THEN a ELSE b

Max(a, b) == IF a > b THEN a ELSE b

\* nearest integer to a / b (b > 0), halves away from zero
RoundDiv(a, b) == IF a >= 0 THEN (2 * a + b) \div (2 * b) ELSE -((2 * (-a) + b) \div (2 * b))

Range(s) == {s[i] : i \in 1..Len(s)}

----------------------------------------------------------------------------
(* THREE.Vector3 on integer vectors *)

subVectors(a, b) == <<a[1] - b[1], a[2] - b[2], a[3] - b[3]>>

addVectors(a, b) == <<a[1] + b[1], a[2] + b[2], a[3] + b[3]>>

crossVectors(a, b) ==
    <<a[2] * b[3] - a[3] * b[2], a[3] * b[1] - a[1] * b[3], a[1] * b[2] - a[2] * b[1]>>

dotVectors(a, b) == a[1] * b[1] + a[2] * b[2] + a[3] * b[3]

\* square of Vector3.distanceTo; the order of two distances is the order of
\* their squares
distanceToSq(a, b) == dotVectors(subVectors(a, b), subVectors(a, b))

----------------------------------------------------------------------------
(* Strings: ids and keys *)

Hyphen == <<0>>

\* s < t in the order of String.prototype.localeless comparison (code units)
RECURSIVE StrLess(_, _)
StrLess(s, t) ==
    IF Len(t) = 0 THEN FALSE
    ELSE IF Len(s) = 0 THEN TRUE
    ELSE IF s[1] # t[1] THEN s[1] < t[1]
    ELSE StrLess(Tail(s), Tail(t))

\* a pair left in the order it came in
KeepPair(x, y) == <<x, y>>

\* [x, y].sort() on two strings
SortPair(x, y) == IF StrLess(y, x) THEN <<y, x>> ELSE <<x, y>>

\* [x, y, z].sort() on three strings
SortTriple(x, y, z) ==
    LET p == SortPair(x, y)
    IN  IF StrLess(z, p[1]) THEN <<z, p[1], p[2]>>
        ELSE IF StrLess(z, p[2]) THEN <<p[1], z, p[2]>>
        ELSE <<p[1], p[2], z>>

\* `${x}-${y}`
EdgeKey(x, y) == x \o Hyphen \o y

\* ids.join('-') on three ids
FaceKey(ids) == ids[1] \o Hyphen \o ids[2] \o Hyphen \o ids[3]

----------------------------------------------------------------------------
(* Angles.  An angle is kept as the expression the source computes it by:
     kind "pi"     : num * Math.PI / den
     kind "acos"   : Math.acos(num / den)
     kind "golden" : 2 * Math.PI * num / goldenRatio
   Its cosine and sine are counted in thousandths, rounded to the nearest. *)

PiAngle(num, den) == [kind |-> "pi", num |-> num, den |-> den]

AcosAngle(num, den) == [kind |-> "acos", num |-> num, den |-> den]

GoldenAngle(i) == [kind |-> "golden", num |-> i, den |-> 1]

\* the largest r in lo..hi with r * r <= v, by bisection
RECURSIVE SqrtBetween(_, _, _)
SqrtBetween(v, lo, hi) ==
    IF lo >= hi THEN lo
    ELSE LET mid == (lo + hi + 1) \div 2
         IN  IF mid * mid <= v THEN SqrtBetween(v, mid, hi) ELSE SqrtBetween(v, lo, mid - 1)

\* cos and sin of k * 60 degrees and of k * 90 degrees, in thousandths
CosPi(num, den) ==
    IF den = 1 THEN (IF num % 2 = 0 THEN 1000 ELSE -1000)
    ELSE IF den = 2 THEN 0
    ELSE IF num % 6 \in {1, 5} THEN 500 ELSE -500

SinPi(num, den) ==
    IF den = 1 THEN 0
    ELSE IF den = 2 THEN (IF num % 4 = 1 THEN 1000 ELSE -1000)
    ELSE IF num % 6 \in {1, 2} THEN 866 ELSE -866

\* cos and sin of 2 * pi * i / goldenRatio for the first indices
CosGolden(i) == <<1000, -737, 87, 608, -985, 844, -260, -461>>[i + 1]

SinGolden(i) == <<0, -675, 996, -794, 174, 537, -966, 887>>[i + 1]

\* Math.cos
Cos(a) ==
    IF a.kind = "pi" THEN (IF a.num = 0 THEN 1000 ELSE CosPi(a.num, a.den))
    ELSE IF a.kind = "acos" THEN RoundDiv(1000 * a.num, a.den)
    ELSE CosGolden(a.num)

\* Math.sin; the sine of an arc cosine is the non-negative root of 1 - cos^2
Sin(a) ==
    IF a.kind = "pi" THEN (IF a.num = 0 THEN 0 ELSE SinPi(a.num, a.den))
    ELSE IF a.kind = "acos"
         THEN SqrtBetween((1000000 * (a.den * a.den - a.num * a.num)) \div (a.den * a.den),
                          0, 1000)
    ELSE SinGolden(a.num)

----------------------------------------------------------------------------
(* distributePointsOnSphere *)

\* the Fibonacci loop `for (let i = 0; i < count; i++)`, from index i on;
\* 1 - (2 * (i + 0.5)) / count = (count - 2 i - 1) / count
RECURSIVE FibonacciThrough(_, _)
\* a loop that runs while i <= count
FibonacciThrough(i, count) ==
    IF i > count THEN <<>>
    ELSE <<[phi |-> AcosAngle(count - 2 * i - 1, count), theta |-> GoldenAngle(i)]>>
         \o FibonacciThrough(i + 1, count)

RECURSIVE FibonacciFrom(_, _)
FibonacciFrom(i, count) ==
    IF i >= count THEN <<>>
    ELSE <<[phi |-> AcosAngle(count - 2 * i - 1, count), theta |-> GoldenAngle(i)]>>
         \o FibonacciFrom(i + 1, count)

Zero == PiAngle(0, 1)

\* a layout that takes the spiral for every count
distributePointsOnSphereSpiralOnly(count) == FibonacciFrom(0, count)

distributePointsOnSphere(count) ==
    IF count = 1 THEN <<[phi |-> Zero, theta |-> Zero]>>
    ELSE IF count = 2 THEN <<[phi |-> Zero, theta |-> Zero], [phi |-> PiAngle(1, 1), theta |-> Zero]>>
    ELSE IF count = 3 THEN
        <<[phi |-> PiAngle(1, 2), theta |-> Zero],
          [phi |-> PiAngle(1, 2), theta |-> PiAngle(2, 3)],
          [phi |-> PiAngle(1, 2), theta |-> PiAngle(4, 3)]>>
    ELSE IF count = 4 THEN
        LET tetrahedralAngle == AcosAngle(-1, 3)
        IN  <<[phi |-> Zero, theta |-> Zero],
              [phi |-> tetrahedralAngle, theta |-> Zero],
              [phi |-> tetrahedralAngle, theta |-> PiAngle(2, 3)],
              [phi |-> tetrahedralAngle, theta |-> PiAngle(4, 3)]>>
    ELSE IF count = 5 THEN
        <<[phi |-> Zero, theta |-> Zero],
          [phi |-> PiAngle(1, 1), theta |-> Zero],
          [phi |-> PiAngle(1, 2), theta |-> Zero],
          [phi |-> PiAngle(1, 2), theta |-> PiAngle(2, 3)],
          [phi |-> PiAngle(1, 2), theta |-> PiAngle(4, 3)]>>
    ELSE IF count = 6 THEN
        <<[phi |-> Zero, theta |-> Zero],
          [phi |-> PiAngle(1, 1), theta |-> Zero],
          [phi |-> PiAngle(1, 2), theta |-> Zero],
          [phi |-> PiAngle(1, 2), theta |-> PiAngle(1, 2)],
          [phi |-> PiAngle(1, 2), theta |-> PiAngle(1, 1)],
          [phi |-> PiAngle(1, 2), theta |-> PiAngle(3, 2)]>>
    ELSE FibonacciFrom(0, count)

----------------------------------------------------------------------------
(* getVectorFromSpherical.  The radius is counted in tenths; the result is
   rounded to the coarse grid of CoarseGrid steps per unit of length. *)

\* a conversion that puts the height r cos(phi) on the third axis
getVectorFromSphericalZUp(radius, phi, theta) ==
    <<RoundDiv(radius * CoarseGrid * Sin(phi) * Cos(theta), 10 * 1000 * 1000),
      RoundDiv(radius * CoarseGrid * Sin(phi) * Sin(theta), 10 * 1000 * 1000),
      RoundDiv(radius * CoarseGrid * Cos(phi), 10 * 1000)>>

getVectorFromSpherical(radius, phi, theta) ==
    <<RoundDiv(radius * CoarseGrid * Sin(phi) * Cos(theta), 10 * 1000 * 1000),
      RoundDiv(radius * CoarseGrid * Cos(phi), 10 * 1000),
      RoundDiv(radius * CoarseGrid * Sin(phi) * Sin(theta), 10 * 1000 * 1000)>>

----------------------------------------------------------------------------
(* getEdgeControlPoint: the midpoint of p1 and p2, scaled by 0.7 (curve-in),
   by 1.3 (curve-out) or left alone.  The result is counted in twentieths of
   a grid step: (p1 + p2) * 0.5 * f = (p1 + p2) * (10 f) / 20. *)

\* the two curve styles taken for each other
StyleFactorSwapped(style) ==
    IF style = "curve-in" THEN 13 ELSE IF style = "curve-out" THEN 7 ELSE 10

StyleFactor(style) ==
    IF style = "curve-in" THEN 7 ELSE IF style = "curve-out" THEN 13 ELSE 10

getEdgeControlPoint(p1, p2, style) ==
    LET s == addVectors(p1, p2)
        f == StyleFactor(style)
    IN  <<s[1] * f, s[2] * f, s[3] * f>>

----------------------------------------------------------------------------
(* computeConvexHull *)

\* Math.abs(dot) > 1e-4, where dot = normal.dot(vm) and normal is the cross
\* product c after Vector3.normalize(): c / |c|, or the zero vector when
\* |c| = 0 (normalize divides by `length() || 1`).  With u the resolution,
\* |c.vm| / |c| > epsNum / epsDen  iff  (|c.vm| * epsDen)^2 > epsNum^2 * |c|^2.
\* 46340 is the largest integer whose square fits TLC's 32-bit integers; the
\* right-hand side always fits them.
FarFromPlane(c, vm, u) ==
    LET lhs == Abs(dotVectors(c, vm)) * u.epsDen
        rhs == u.epsNum * u.epsNum * dotVectors(c, c)
    IN  /\ dotVectors(c, c) # 0
        /\ rhs >= 0
        /\ (lhs > 46340 \/ lhs * lhs > rhs)

\* the `for m` scan of one triple (i, j, k), from node m on with the side
\* found so far: TRUE iff it ends with isFace still true
RECURSIVE ScanSides(_, _, _, _, _, _, _)
\* a scan in which a node inside the epsilon band counts like any other node
\* that is off the plane
ScanSidesNoBand(ns, u, i, j, k, m, side) ==
    IF m > Len(ns) THEN TRUE
    ELSE IF m = i \/ m = j \/ m = k THEN ScanSides(ns, u, i, j, k, m + 1, side)
    ELSE LET p1 == ns[i].pos
             c  == crossVectors(subVectors(ns[j].pos, p1), subVectors(ns[k].pos, p1))
             vm == subVectors(ns[m].pos, p1)
             currentSide == Sign(dotVectors(c, vm))
         IN  IF currentSide # 0
             THEN IF side = 0 THEN ScanSides(ns, u, i, j, k, m + 1, currentSide)
                  ELSE IF side # currentSide THEN FALSE
                  ELSE ScanSides(ns, u, i, j, k, m + 1, side)
             ELSE ScanSides(ns, u, i, j, k, m + 1, side)

ScanSides(ns, u, i, j, k, m, side) ==
    IF m > Len(ns) THEN TRUE
    ELSE IF m = i \/ m = j \/ m = k THEN ScanSides(ns, u, i, j, k, m + 1, side)
    ELSE LET p1 == ns[i].pos
             c  == crossVectors(subVectors(ns[j].pos, p1), subVectors(ns[k].pos, p1))
             vm == subVectors(ns[m].pos, p1)
             currentSide == Sign(dotVectors(c, vm))
         IN  IF FarFromPlane(c, vm, u)
             THEN IF side = 0 THEN ScanSides(ns, u, i, j, k, m + 1, currentSide)
                  ELSE IF side # currentSide THEN FALSE
                  ELSE ScanSides(ns, u, i, j, k, m + 1, side)
             ELSE ScanSides(ns, u, i, j, k, m + 1, side)

\* isFace after the scan of triple (i, j, k), which starts with side = 0
IsFace(ns, u, i, j, k) == ScanSides(ns, u, i, j, k, 1, 0)

\* the index triples i < j < k <= n, and the order in which the three nested
\* loops visit them
TriplesOf(n) == {t \in (1..n) \X (1..n) \X (1..n) : t[1] < t[2] /\ t[2] < t[3]}

VisitedBefore(s, t) ==
    \/ s[1] < t[1]
    \/ s[1] = t[1] /\ s[2] < t[2]
    \/ s[1] = t[1] /\ s[2] = t[2] /\ s[3] < t[3]

TripleSeq(n) ==
    LET T == TriplesOf(n)
    IN  [x \in 1..Cardinality(T) |->
            CHOOSE t \in T : Cardinality({s \in T : VisitedBefore(s, t)}) = x - 1]

\* the triples for which `if (isFace)` is entered, in loop order
HullFaceTriples(ns, u) ==
    SelectSeq(TripleSeq(Len(ns)), LAMBDA t : IsFace(ns, u, t[1], t[2], t[3]))

\* faces.push({ nodeIds, positions, controlPoints }) for triple t
HullFace(ns, t, style) ==
    LET p1 == ns[t[1]].pos
        p2 == ns[t[2]].pos
        p3 == ns[t[3]].pos
    IN  [nodeIds |-> <<ns[t[1]].id, ns[t[2]].id, ns[t[3]].id>>,
         positions |-> <<p1, p2, p3>>,
         controlPoints |-> <<getEdgeControlPoint(p1, p2, style),
                             getEdgeControlPoint(p2, p3, style),
                             getEdgeControlPoint(p3, p1, style)>>,
         colors |-> <<ns[t[1]].color, ns[t[2]].color, ns[t[3]].color>>]

\* [[i, j], [j, k], [k, i]] with each pair sorted by (x, y) => x - y
HullPairs(t) == <<<<t[1], t[2]>>, <<t[2], t[3]>>, <<t[1], t[3]>>>>

\* the pairs the forEach visits over the whole run, in order, each with its
\* place p in that order and its edgeKey
HullEdgeVisits(ns, ft) ==
    [p \in 1..(3 * Len(ft)) |->
        LET pair == HullPairs(ft[((p - 1) \div 3) + 1])[((p - 1) % 3) + 1]
        IN  [p |-> p, a |-> pair[1], b |-> pair[2],
             edgeKey |-> EdgeKey(ns[pair[1]].id, ns[pair[2]].id)]]

\* edges.push(...) for a visited pair
HullEdge(ns, v, style) ==
    [start |-> ns[v.a].pos, end |-> ns[v.b].pos,
     mid |-> getEdgeControlPoint(ns[v.a].pos, ns[v.b].pos, style),
     nodeAId |-> ns[v.a].id, nodeBId |-> ns[v.b].id]

\* `if (!edgeSet.has(edgeKey)) { edgeSet.add(edgeKey); edges.push(...) }`:
\* a visit pushes an edge iff no earlier visit had its key
HullEdges(ns, ft, style) ==
    LET visits == HullEdgeVisits(ns, ft)
        pushed == SelectSeq(visits,
                      LAMBDA v : \A q \in 1..(v.p - 1) : visits[q].edgeKey # v.edgeKey)
    IN  [x \in 1..Len(pushed) |-> HullEdge(ns, pushed[x], style)]

EmptyGraph == [edges |-> <<>>, faces |-> <<>>]

\* a hull that is built from three nodes on
computeConvexHullFromThree(ns, u, connectionStyle) ==
    IF Len(ns) < 3 THEN EmptyGraph
    ELSE LET ft == HullFaceTriples(ns, u)
         IN  [edges |-> HullEdges(ns, ft, connectionStyle),
              faces |-> [x \in 1..Len(ft) |-> HullFace(ns, ft[x], connectionStyle)]]

computeConvexHull(ns, u, connectionStyle) ==
    IF Len(ns) < 4 THEN EmptyGraph
    ELSE LET ft == HullFaceTriples(ns, u)
         IN  [edges |-> HullEdges(ns, ft, connectionStyle),
              faces |-> [x \in 1..Len(ft) |-> HullFace(ns, ft[x], connectionStyle)]]

----------------------------------------------------------------------------
(* computeNearestNeighborGraph *)

\* a clamp that lets the count reach the number of nodes
EffectiveNeighborsUpToLength(n, connectionNeighbors) == Max(1, Min(n, connectionNeighbors))

\* Math.max(1, Math.min(nodes.length - 1, connectionNeighbors))
EffectiveNeighbors(n, connectionNeighbors) == Max(1, Min(n - 1, connectionNeighbors))

\* a filter that lets node i through as well
OthersWithSelf(ns, i) == 1..Len(ns)

\* nodes.filter((_, j) => i !== j): the indices of the other nodes
Others(ns, i) == (1..Len(ns)) \ {i}

\* .sort((a, b) => a.dist - b.dist) is stable: j comes after every other
\* node that is nearer to i, and after the earlier ones just as near
SortedBefore(ns, i, h, j) ==
    LET dh == distanceToSq(ns[i].pos, ns[h].pos)
        dj == distanceToSq(ns[i].pos, ns[j].pos)
    IN  dh < dj \/ (dh = dj /\ h < j)

\* the `neighbors` of node i: .filter().map().sort().slice(0, k), as
\* { id, dist } entries
Neighbors(ns, i, k) ==
    LET others == Others(ns, i)
        count == IF k < 0 THEN Max(Cardinality(others) + k, 0)
                 ELSE Min(k, Cardinality(others))
    IN  [x \in 1..count |->
            LET j == CHOOSE j \in others :
                        Cardinality({h \in others : SortedBefore(ns, i, h, j)}) = x - 1
            IN  [id |-> ns[j].id, dist |-> distanceToSq(ns[i].pos, ns[j].pos)]]

\* nodes.find(x => x.id === id): the first node with that id
FindNode(ns, id) ==
    ns[CHOOSE j \in 1..Len(ns) : ns[j].id = id /\ \A h \in 1..(j - 1) : ns[h].id # id]

\* the passes of nodes.forEach / neighbors.forEach over the whole run, in
\* order: pass p is node A (index a) with the entry n of its `neighbors`
RECURSIVE KnnPassesFrom(_, _, _)
KnnPassesFrom(ns, k, a) ==
    IF a > Len(ns) THEN <<>>
    ELSE LET neighbors == Neighbors(ns, a, k)
         IN  [x \in 1..Len(neighbors) |-> [a |-> a, n |-> neighbors[x]]]
                 \o KnnPassesFrom(ns, k, a + 1)

\* what each pass works with: nodeA, nodeB, the sorted ids and the edgeKey
KnnVisits(ns, k) ==
    LET passes == KnnPassesFrom(ns, k, 1)
    IN  [p \in 1..Len(passes) |->
            LET nodeA == ns[passes[p].a]
                nodeB == FindNode(ns, passes[p].n.id)
                ids == SortPair(nodeA.id, nodeB.id)
            IN  [p |-> p, nodeA |-> nodeA, nodeB |-> nodeB, id1 |-> ids[1], id2 |-> ids[2],
                 edgeKey |-> EdgeKey(ids[1], ids[2])]]

\* symmetricAdj, a Map from id to Set of ids, as the set of pairs <<x, y>>
\* with y in symmetricAdj.get(x): every pass adds B to A's set and A to B's
SymmetricAdj(visits) ==
    UNION {{<<visits[p].nodeA.id, visits[p].nodeB.id>>,
            <<visits[p].nodeB.id, visits[p].nodeA.id>>} : p \in 1..Len(visits)}

AdjGet(adj, x) == {q[2] : q \in {r \in adj : r[1] = x}}

AdjHas(adj, x) == \E q \in adj : q[1] = x

\* `if (!uniqueEdgeKeys.has(edgeKey)) { ...; edges.push(...) }`: a pass pushes
\* an edge iff no earlier pass had its key
KnnEdges(visits, style) ==
    LET pushed == SelectSeq(visits,
                      LAMBDA v : \A q \in 1..(v.p - 1) : visits[q].edgeKey # v.edgeKey)
    IN  [x \in 1..Len(pushed) |->
            [start |-> pushed[x].nodeA.pos, end |-> pushed[x].nodeB.pos,
             mid |-> getEdgeControlPoint(pushed[x].nodeA.pos, pushed[x].nodeB.pos, style),
             nodeAId |-> pushed[x].id1, nodeBId |-> pushed[x].id2]]

\* the passes of edges.forEach / nodes.forEach(nodeC), in order: pass p is
\* edge e and node c; `found` says whether the three nested ifs are entered
KnnFaceVisits(ns, adj, edges) ==
    [p \in 1..(Len(edges) * Len(ns)) |->
        LET idA == edges[((p - 1) \div Len(ns)) + 1].nodeAId
            idB == edges[((p - 1) \div Len(ns)) + 1].nodeBId
            idC == ns[((p - 1) % Len(ns)) + 1].id
            ids == SortTriple(idA, idB, idC)
        IN  [p |-> p, ids |-> ids, faceKey |-> FaceKey(ids),
             found |-> /\ AdjHas(adj, idA) /\ AdjHas(adj, idB)
                       /\ idC # idA /\ idC # idB
                       /\ idC \in AdjGet(adj, idA) /\ idC \in AdjGet(adj, idB)]]

\* faces.push(...) for the sorted ids of a pass
KnnFace(ns, ids, style) ==
    LET nodeA == FindNode(ns, ids[1])
        nodeB == FindNode(ns, ids[2])
        nodeC == FindNode(ns, ids[3])
    IN  [nodeIds |-> ids,
         positions |-> <<nodeA.pos, nodeB.pos, nodeC.pos>>,
         controlPoints |-> <<getEdgeControlPoint(nodeA.pos, nodeB.pos, style),
                             getEdgeControlPoint(nodeB.pos, nodeC.pos, style),
                             getEdgeControlPoint(nodeC.pos, nodeA.pos, style)>>,
         colors |-> <<nodeA.color, nodeB.color, nodeC.color>>]

\* `if (!processedFaces.has(faceKey)) { ...; faces.push(...) }`: a pass that
\* finds a face pushes it iff no earlier pass that found one had its key
KnnFaces(ns, adj, edges, style) ==
    LET visits == KnnFaceVisits(ns, adj, edges)
        pushed == SelectSeq(visits,
                      LAMBDA v : /\ v.found
                                 /\ \A q \in 1..(v.p - 1) :
                                       visits[q].found => visits[q].faceKey # v.faceKey)
    IN  [x \in 1..Len(pushed) |-> KnnFace(ns, pushed[x].ids, style)]

computeNearestNeighborGraph(ns, s) ==
    LET visits == KnnVisits(ns, EffectiveNeighbors(Len(ns), s.connectionNeighbors))
        edges == KnnEdges(visits, s.connectionStyle)
    IN  [edges |-> edges,
         faces |-> KnnFaces(ns, SymmetricAdj(visits), edges, s.connectionStyle)]

----------------------------------------------------------------------------
(* useGraphData *)

useGraphData(ns, u, s) ==
    IF s.connectionStyle = "none" THEN EmptyGraph
    ELSE IF s.connectionMode = "auto" THEN computeConvexHull(ns, u, s.connectionStyle)
    ELSE computeNearestNeighborGraph(ns, s)

----------------------------------------------------------------------------
(* App.updateCapabilitiesLayout and SceneContent's `nodes` *)

\* caps.map((cap, index) => ({ ...cap, phi: points[index].phi, theta: points[index].theta }))
updateCapabilitiesLayout(caps) ==
    LET points == distributePointsOnSphere(Len(caps))
    IN  [index \in 1..Len(caps) |->
            [caps[index] EXCEPT !.phi = points[index].phi, !.theta = points[index].theta]]

\* capabilities.map(cap => ({ id, pos: tipPos, ... })); lengths in tenths
SceneNodes(caps, s) ==
    [index \in 1..Len(caps) |->
        LET cap == caps[index]
            tipDist == s.coreRadius + s.barBaseLength + cap.score * s.scoreScale
        IN  [id |-> cap.id, color |-> cap.color,
             pos |-> getVectorFromSpherical(tipDist, cap.phi, cap.theta)]]

----------------------------------------------------------------------------
(* SceneContent's geometryKey.  A string is the sequence of its characters,
   each a one-character string; a word of lower-case letters that the source
   writes as a whole ('auto', 'fixed', 'grad', 'solid', ...) is kept as one
   element, since such words meet only hyphens and never digits.  Numbers are
   written as the template string writes them: in decimal, without trailing
   zeros, a minus sign first when negative. *)

RECURSIVE Digits(_)
Digits(n) ==
    LET d == <<"0", "1", "2", "3", "4", "5", "6", "7", "8", "9">>[(n % 10) + 1]
    IN  IF n < 10 THEN <<d>> ELSE Digits(n \div 10) \o <<d>>

\* `${x}` for the number x = v / den, den one of 1, 10, 100
NumberString(v, den) ==
    LET a == Abs(v)
        frac == a % den
        shown == IF frac = 0 THEN <<>>
                 ELSE IF den = 10 THEN <<".">> \o Digits(frac)
                 ELSE IF frac % 10 = 0 THEN <<".">> \o Digits(frac \div 10)
                 ELSE <<".">> \o Digits(frac \div 10) \o Digits(frac % 10)
    IN  (IF v < 0 THEN <<"-">> ELSE <<>>) \o Digits(a \div den) \o shown

\* two hexadecimal digits
Hex(n) ==
    LET h == <<"0", "1", "2", "3", "4", "5", "6", "7", "8", "9", "a", "b", "c", "d", "e", "f">>
    IN  <<h[(n \div 16) + 1], h[(n % 16) + 1]>>

\* the colour string '#rrggbb' of a colour
ColorString(c) == <<"#">> \o Hex(c[1]) \o Hex(c[2]) \o Hex(c[3])

\* 'none', 'straight', 'curve-in', 'curve-out' letter by word
StyleString(style) ==
    IF style = "curve-in" THEN <<"curve", "-", "in">>
    ELSE IF style = "curve-out" THEN <<"curve", "-", "out">>
    ELSE <<style>>

\* capabilities.map(c => c.score).join('-'), from capability x on
RECURSIVE scoreKeyFrom(_, _)
scoreKeyFrom(caps, x) ==
    IF x > Len(caps) THEN <<>>
    ELSE (IF x > 1 THEN <<"-">> ELSE <<>>) \o NumberString(caps[x].score, 1)
            \o scoreKeyFrom(caps, x + 1)

\* settings.fillColorMode === 'core' ? coreColor : (=== 'solid' ? fillSolidColor : 'grad')
colorKey(s) ==
    IF s.fillColorMode = "core" THEN ColorString(s.coreColor)
    ELSE IF s.fillColorMode = "solid" THEN ColorString(s.fillSolidColor)
    ELSE <<"grad">>

\* a key that leaves the fill opacity out
geometryKeyNoOpacity(caps, s) ==
    <<"R">> \o NumberString(s.coreRadius, 10) \o <<"-", "S">> \o NumberString(s.scoreScale, 10)
        \o <<"-", "B">> \o NumberString(s.barBaseLength, 10) \o <<"-">> \o scoreKeyFrom(caps, 1)
        \o <<"-", s.connectionMode, "-">> \o NumberString(s.connectionNeighbors, 1)
        \o <<"-">> \o StyleString(s.connectionStyle) \o <<"-", s.fillColorMode, "-">>
        \o colorKey(s)

geometryKey(caps, s) ==
    <<"R">> \o NumberString(s.coreRadius, 10) \o <<"-", "S">> \o NumberString(s.scoreScale, 10)
        \o <<"-", "B">> \o NumberString(s.barBaseLength, 10) \o <<"-">> \o scoreKeyFrom(caps, 1)
        \o <<"-", s.connectionMode, "-">> \o NumberString(s.connectionNeighbors, 1)
        \o <<"-">> \o StyleString(s.connectionStyle) \o <<"-", s.fillColorMode, "-">>
        \o colorKey(s) \o <<"-">> \o NumberString(s.fillOpacity, 100)

----------------------------------------------------------------------------
(* Inputs *)

\* DEFAULT_VISUALS: lengths in tenths, fillOpacity in hundredths, the colours
\* '#6366f1'; the settings that none of the modelled code reads are left out
DEFAULT_VISUALS ==
    [coreRadius |-> 10, barBaseLength |-> 5, scoreScale |-> 3,
     connectionStyle |-> "curve-in", connectionMode |-> "auto", connectionNeighbors |-> 3,
     coreColor |-> <<99, 102, 241>>, fillMesh |-> TRUE, fillColorMode |-> "gradient",
     fillSolidColor |-> <<99, 102, 241>>, fillOpacity |-> 20]

ConnectionStyles == {"none", "straight", "curve-in", "curve-out"}

NeighborCounts == (-1)..MaxNeighbors

\* the settings that reach useGraphData: connectionNeighbors is read in
\* "fixed" mode only
GraphSettings(styles) ==
    {[DEFAULT_VISUALS EXCEPT !.connectionStyle = st] : st \in styles}
    \cup {[DEFAULT_VISUALS EXCEPT !.connectionStyle = st, !.connectionMode = "fixed",
                                  !.connectionNeighbors = k] :
            st \in styles, k \in NeighborCounts}

\* the colours of INITIAL_CAPS_EN, '#ef4444', '#3b82f6', '#a855f7', '#eab308'
\* and '#22c55e', handed out in turn
Palette(i) ==
    <<<<239, 68, 68>>, <<59, 130, 246>>, <<168, 85, 247>>, <<234, 179, 8>>,
      <<34, 197, 94>>>>[((i - 1) % 5) + 1]

\* a capability as handleAddCapability makes it, before it is laid out
Capability(id, color, score) ==
    [id |-> id, color |-> color, score |-> score, phi |-> Zero, theta |-> Zero]

\* id lists: 'a','b','c',... ascending, the same descending, and a list
\* with ids that contain the separator: 'a','b-c','a-b','c','d',...
AscendingIds(n) == [i \in 1..n |-> <<i>>]

DescendingIds(n) == [i \in 1..n |-> <<n + 1 - i>>]

HyphenIds(n) ==
    [i \in 1..n |-> IF i = 1 THEN <<1>> ELSE IF i = 2 THEN <<2, 0, 3>>
                    ELSE IF i = 3 THEN <<1, 0, 2>> ELSE <<i - 1>>]

\* resolutions
FineUnit == [epsNum |-> 2, epsDen |-> 1]

CoarseUnit == [epsNum |-> 1, epsDen |-> 10000 \div CoarseGrid]

\* positions on the fine grid: a triangle A, B, C in the plane z = 0 and
\* three points on the line x = y = 1: on the epsilon band of that plane,
\* above it and below it
FinePool == {<<0, 0, 0>>, <<4, 0, 0>>, <<0, 4, 0>>, <<1, 1, 2>>, <<1, 1, 3>>, <<1, 1, -3>>}

\* any nodes at positions of the fine grid
InitFine ==
    \E n \in 0..MaxNodes :
    \E f \in [1..n -> FinePool] :
        /\ nodes = [i \in 1..n |->
                        [id |-> AscendingIds(n)[i], color |-> Palette(i), pos |-> f[i]]]
        /\ unit = FineUnit
        /\ settings \in GraphSettings({"curve-in"})

\* the nodes of a scene: capabilities laid out by updateCapabilitiesLayout
InitScene ==
    \E n \in 0..MaxNodes :
    \E score \in [1..n -> 0..MaxScore] :
    \E ids \in {AscendingIds(n), DescendingIds(n), HyphenIds(n)} :
        /\ settings \in GraphSettings(ConnectionStyles)
        /\ nodes = SceneNodes(updateCapabilitiesLayout(
                        [i \in 1..n |-> Capability(ids[i], Palette(i), score[i])]), settings)
        /\ unit = CoarseUnit

\* no helper is called on its own
NoCall == [fn |-> "none"]

\* no dependency list: nothing has been rendered
NoDeps == <<>>

NoMemo == [pending |-> 0, nodes |-> NoDeps, graph |-> NoDeps, mesh |-> NoDeps]

\* no App around the graph engine
NoApp ==
    /\ capabilities = <<>>
    /\ tasks = <<>>
    /\ memo = NoMemo

Init ==
    /\ InitScene \/ InitFine
    /\ graph = EmptyGraph
    /\ pc = "input"
    /\ call = NoCall
    /\ ret = <<>>
    /\ NoApp

----------------------------------------------------------------------------
(* useGraphData, one action per branch *)

GraphNone ==
    /\ pc = "input"
    /\ settings.connectionStyle = "none"
    /\ graph' = EmptyGraph
    /\ pc' = "done"
    /\ UNCHANGED <<nodes, unit, settings, call, ret, capabilities, tasks, memo>>

ComputeConvexHull ==
    /\ pc = "input"
    /\ settings.connectionStyle # "none"
    /\ settings.connectionMode = "auto"
    /\ graph' = computeConvexHull(nodes, unit, settings.connectionStyle)
    /\ pc' = "done"
    /\ UNCHANGED <<nodes, unit, settings, call, ret, capabilities, tasks, memo>>

ComputeNearestNeighborGraph ==
    /\ pc = "input"
    /\ settings.connectionStyle # "none"
    /\ settings.connectionMode # "auto"
    /\ graph' = computeNearestNeighborGraph(nodes, settings)
    /\ pc' = "done"
    /\ UNCHANGED <<nodes, unit, settings, call, ret, capabilities, tasks, memo>>

Next == GraphNone \/ ComputeConvexHull \/ ComputeNearestNeighborGraph

Spec == Init /\ [][Next]_vars

----------------------------------------------------------------------------
(* SkillMesh: meshData.  A colour is a vector <<r, g, b>> of whole numbers;
   how THREE.Color reads a colour string is not modelled.  With `segments`
   the subdivision count, the barycentric coordinates u, v, w are i, j, k
   over segments; a vertex position is counted in 1/(20 segments^2) of a grid
   step (the control points come in twentieths) and a colour component in
   1/segments.  positions and colors hold one entry per vertex, where the
   source pushes its three numbers. *)

\* null, what meshData is when there is nothing to fill: a record with no
\* buffers
Null == [null |-> TRUE]

\* a subdivision half as fine
SegmentsHalved(isStraight) == IF isStraight THEN 1 ELSE 6

\* const segments = isStraight ? 1 : 12
Segments(isStraight) == IF isStraight THEN 1 ELSE 12

\* Vector3 times a scalar, as addScaledVector adds it
scaledVector(v, f) == <<v[1] * f, v[2] * f, v[3] * f>>

\* new THREE.Color(fillColorMode === 'core' ? coreColor : fillSolidColor)
sColor(s) == IF s.fillColorMode = "core" THEN s.coreColor ELSE s.fillSolidColor

\* getPoint(i / segments, j / segments, k / segments)
getPoint(face, i, j, k) ==
    LET P == face.positions
        E == face.controlPoints
    IN  addVectors(
            addVectors(addVectors(scaledVector(P[1], 20 * i * i), scaledVector(P[2], 20 * j * j)),
                       scaledVector(P[3], 20 * k * k)),
            addVectors(addVectors(scaledVector(E[1], 2 * i * j), scaledVector(E[2], 2 * j * k)),
                       scaledVector(E[3], 2 * k * i)))

\* a gradient that weighs the first two corner colours the other way round
getColorSwapped(face, s, segments, i, j, k) ==
    IF s.fillColorMode = "gradient"
    THEN addVectors(addVectors(scaledVector(face.colors[1], j), scaledVector(face.colors[2], i)),
                    scaledVector(face.colors[3], k))
    ELSE scaledVector(sColor(s), segments)

\* getColor(i / segments, j / segments, k / segments)
getColor(face, s, segments, i, j, k) ==
    IF s.fillColorMode = "gradient"
    THEN addVectors(addVectors(scaledVector(face.colors[1], i), scaledVector(face.colors[2], j)),
                    scaledVector(face.colors[3], k))
    ELSE scaledVector(sColor(s), segments)

\* a vertex: what goes to positions and what goes to colors with it
MeshVertex(face, s, segments, i, j, k) ==
    [p |-> getPoint(face, i, j, k), c |-> getColor(face, s, segments, i, j, k)]

\* a loop body that pushes the second triangle in every cell
MeshCellBothAlways(face, s, segments, i, j) ==
    LET k == segments - i - j
        v1 == MeshVertex(face, s, segments, i, j, k)
        v2 == MeshVertex(face, s, segments, i + 1, j, k - 1)
        v3 == MeshVertex(face, s, segments, i, j + 1, k - 1)
        v4 == MeshVertex(face, s, segments, i + 1, j + 1, k - 2)
    IN  <<v1, v2, v3, v2, v4, v3>>

\* the body of the loops over i and j: the pushes of one cell
MeshCell(face, s, segments, i, j) ==
    LET k == segments - i - j
        v1 == MeshVertex(face, s, segments, i, j, k)
        v2 == MeshVertex(face, s, segments, i + 1, j, k - 1)
        v3 == MeshVertex(face, s, segments, i, j + 1, k - 1)
        v4 == MeshVertex(face, s, segments, i + 1, j + 1, k - 2)
    IN  IF i + j + 1 < segments THEN <<v1, v2, v3, v2, v4, v3>> ELSE <<v1, v2, v3>>

\* for (let j = 0; j < segments - i; j++), from j on
RECURSIVE MeshRowFrom(_, _, _, _, _)
MeshRowFrom(face, s, segments, i, j) ==
    IF j >= segments - i THEN <<>>
    ELSE MeshCell(face, s, segments, i, j) \o MeshRowFrom(face, s, segments, i, j + 1)

\* for (let i = 0; i < segments; i++), from i on
RECURSIVE MeshRowsFrom(_, _, _, _)
MeshRowsFrom(face, s, segments, i) ==
    IF i >= segments THEN <<>>
    ELSE MeshRowFrom(face, s, segments, i, 0) \o MeshRowsFrom(face, s, segments, i + 1)

\* the pushes for one face
MeshFace(face, s) ==
    LET isStraight == s.connectionStyle = "straight"
        Flat(x) == [p |-> scaledVector(face.positions[x], 20),
                    c |-> IF s.fillColorMode = "gradient" THEN face.colors[x] ELSE sColor(s)]
    IN  IF isStraight THEN <<Flat(1), Flat(2), Flat(3)>>
        ELSE MeshRowsFrom(face, s, Segments(isStraight), 0)

\* faces.forEach, from face x on
RECURSIVE MeshFacesFrom(_, _, _)
MeshFacesFrom(faces, s, x) ==
    IF x > Len(faces) THEN <<>>
    ELSE MeshFace(faces[x], s) \o MeshFacesFrom(faces, s, x + 1)

meshData(faces, s) ==
    IF ~s.fillMesh \/ Len(faces) = 0 \/ s.connectionStyle = "none" THEN Null
    ELSE LET pushed == MeshFacesFrom(faces, s, 1)
         IN  [positions |-> [x \in 1..Len(pushed) |-> pushed[x].p],
              colors |-> [x \in 1..Len(pushed) |-> pushed[x].c]]

----------------------------------------------------------------------------
(* SkillNode: the font size of a label, set on every frame.  Sizes are
   counted in 1/HTML_DISTANCE_FACTOR of a pixel, so that
   minLabelSize / scaleFactor = minLabelSize * distance / HTML_DISTANCE_FACTOR
   is a whole number; with distance >= 0,
   labelSize * (HTML_DISTANCE_FACTOR / distance) < minLabelSize is
   labelSize * HTML_DISTANCE_FACTOR < minLabelSize * distance (at distance 0
   the left side of the source's test is Infinity or NaN and the test fails). *)

HTML_DISTANCE_FACTOR == 15

\* what useFrame hands to setCurrentFontSize
currentFontSize(distance, labelSize, minLabelSize) ==
    IF labelSize * HTML_DISTANCE_FACTOR < minLabelSize * distance
    THEN Min(1500 * HTML_DISTANCE_FACTOR, minLabelSize * distance)
    ELSE labelSize * HTML_DISTANCE_FACTOR

----------------------------------------------------------------------------
(* The helpers called on their own: one call per behaviour, the arguments
   drawn from small sets, the graph variables at rest *)

LayoutCalls == {[fn |-> "distributePointsOnSphere", count |-> c] : c \in 0..MaxCount}

\* the angles the layouts of 1..7 capabilities hand out
LayoutPoints == UNION {Range(distributePointsOnSphere(c)) : c \in 1..7}

\* radii in tenths: the core radius and tip distances of the default settings
Radii == {10, 15, 18, 21}

VectorCalls ==
    {[fn |-> "getVectorFromSpherical", radius |-> r, phi |-> p.phi, theta |-> q.theta] :
        r \in Radii, p \in LayoutPoints, q \in LayoutPoints}

ControlPointCalls ==
    {[fn |-> "getEdgeControlPoint", p1 |-> a, p2 |-> b, style |-> st] :
        a \in FinePool, b \in FinePool, st \in ConnectionStyles}

\* the fill settings SkillMesh reads, with two colours to tell apart
MeshSettings ==
    {[fillMesh |-> fm, fillColorMode |-> mode, fillSolidColor |-> <<0, 0, 255>>,
      coreColor |-> <<99, 102, 241>>, connectionStyle |-> st] :
        fm \in BOOLEAN, mode \in {"solid", "gradient", "core"}, st \in ConnectionStyles}

\* two triangles: one on the axes, one of the layout of 4 capabilities
MeshTriangles ==
    {<<<<4, 0, 0>>, <<0, 4, 0>>, <<0, 0, 4>>>>, <<<<0, 6, 0>>, <<6, -2, 0>>, <<-3, -2, 5>>>>}

\* a face as the graph builders push it, with the colours of its nodes
FaceOf(t, style) ==
    [positions |-> t,
     controlPoints |-> <<getEdgeControlPoint(t[1], t[2], style),
                         getEdgeControlPoint(t[2], t[3], style),
                         getEdgeControlPoint(t[3], t[1], style)>>,
     colors |-> <<<<255, 0, 0>>, <<0, 255, 0>>, <<0, 0, 255>>>>]

MeshCalls ==
    {[fn |-> "SkillMesh", faces |-> [x \in 1..n |-> FaceOf(ts[x], s.connectionStyle)],
      settings |-> s] :
        s \in MeshSettings, n \in 0..MaxFaces, ts \in [1..MaxFaces -> MeshTriangles]}

\* camera distances from touching the tip to far away, label sizes of the
\* settings sliders (8..48, 4..24) and label sizes of an imported file
LabelCalls ==
    {[fn |-> "useFrame", distance |-> d, labelSize |-> l, minLabelSize |-> m] :
        d \in {0, 1, 15, 100, 1000, 5000, 100000},
        l \in {8, 12, 48, 1500, 2000},
        m \in {4, 8, 24}}

\* a settings record and the records that differ from it in one setting that
\* geometryKey reads
VaryOne(s) ==
    {s, [s EXCEPT !.coreRadius = 15], [s EXCEPT !.scoreScale = 15],
     [s EXCEPT !.barBaseLength = 15], [s EXCEPT !.connectionMode = "fixed"],
     [s EXCEPT !.connectionNeighbors = 1], [s EXCEPT !.connectionNeighbors = 13],
     [s EXCEPT !.connectionNeighbors = -1],
     [s EXCEPT !.connectionStyle = "none"], [s EXCEPT !.connectionStyle = "straight"],
     [s EXCEPT !.connectionStyle = "curve-out"], [s EXCEPT !.fillColorMode = "solid"],
     [s EXCEPT !.fillColorMode = "core"], [s EXCEPT !.coreColor = <<239, 68, 68>>],
     [s EXCEPT !.fillSolidColor = <<239, 68, 68>>], [s EXCEPT !.fillOpacity = 5],
     [s EXCEPT !.fillOpacity = 100]}

\* the default settings with up to two of them changed
KeySettings == UNION {VaryOne(s) : s \in VaryOne(DEFAULT_VISUALS)}

\* score lists of up to two capabilities, scores of one and of two digits
KeyScores == UNION {[1..n -> {0, 1, 2, 12}] : n \in 0..2}

KeyCalls ==
    {[fn |-> "geometryKey",
      capabilities |-> [i \in 1..Len(sc) |-> Capability(<<i>>, Palette(i), sc[i])],
      settings |-> s] :
        sc \in KeyScores, s \in KeySettings}

Calls ==
    LayoutCalls \cup VectorCalls \cup ControlPointCalls \cup MeshCalls \cup LabelCalls
        \cup KeyCalls

InitCall ==
    /\ nodes = <<>>
    /\ unit = CoarseUnit
    /\ settings = DEFAULT_VISUALS
    /\ graph = EmptyGraph
    /\ pc = "call"
    /\ call \in Calls
    /\ ret = <<>>
    /\ NoApp

DistributePointsOnSphere ==
    /\ pc = "call"
    /\ call.fn = "distributePointsOnSphere"
    /\ ret' = distributePointsOnSphere(call.count)
    /\ pc' = "returned"
    /\ UNCHANGED <<nodes, unit, settings, graph, call, capabilities, tasks, memo>>

GetVectorFromSpherical ==
    /\ pc = "call"
    /\ call.fn = "getVectorFromSpherical"
    /\ ret' = getVectorFromSpherical(call.radius, call.phi, call.theta)
    /\ pc' = "returned"
    /\ UNCHANGED <<nodes, unit, settings, graph, call, capabilities, tasks, memo>>

GetEdgeControlPoint ==
    /\ pc = "call"
    /\ call.fn = "getEdgeControlPoint"
    /\ ret' = getEdgeControlPoint(call.p1, call.p2, call.style)
    /\ pc' = "returned"
    /\ UNCHANGED <<nodes, unit, settings, graph, call, capabilities, tasks, memo>>

SkillMesh ==
    /\ pc = "call"
    /\ call.fn = "SkillMesh"
    /\ ret' = meshData(call.faces, call.settings)
    /\ pc' = "returned"
    /\ UNCHANGED <<nodes, unit, settings, graph, call, capabilities, tasks, memo>>

UseFrame ==
    /\ pc = "call"
    /\ call.fn = "useFrame"
    /\ ret' = currentFontSize(call.distance, call.labelSize, call.minLabelSize)
    /\ pc' = "returned"
    /\ UNCHANGED <<nodes, unit, settings, graph, call, capabilities, tasks, memo>>

GeometryKey ==
    /\ pc = "call"
    /\ call.fn = "geometryKey"
    /\ ret' = geometryKey(call.capabilities, call.settings)
    /\ pc' = "returned"
    /\ UNCHANGED <<nodes, unit, settings, graph, call, capabilities, tasks, memo>>

NextCall ==
    \/ DistributePointsOnSphere \/ GetVectorFromSpherical \/ GetEdgeControlPoint
    \/ SkillMesh \/ UseFrame \/ GeometryKey

SpecCall == InitCall /\ [][NextCall]_vars

----------------------------------------------------------------------------
(* App: the state `capabilities` and `tasks` and the handlers that change
   them.  Of a task the title and the time stamps, of a capability the name,
   the description and the criteria are stored and read by no handler; they
   are left out.  An id that Math.random hands out is any unused id of a
   small pool.  In the App the character codes 1..9 stand for the characters
   '1'..'9'.  A handler runs as a whole before the next one starts. *)

\* the most capabilities, the most tasks, the highest score a completion may
\* lead to, and the most handlers that run between two renders
MaxCaps == 6

MaxTasks == 2

MaxCredit == 4

MaxLag == 2

INITIAL_CAPS_EN == [i \in 1..5 |-> Capability(<<i>>, Palette(i), 0)]

\* the ids and colours of added capabilities
NewIds == {<<i>> : i \in 6..MaxCaps}

NewColors == {Palette(5), <<255, 255, 255>>}

\* impactMap?: Record<string, number>; undefined is the map without entries
NoImpactMap == [c \in {} |-> 0]

\* the tasks a user adds: one on capabilities '1' and '2' with its own impact
\* on '2', one on capability '1' alone with a uniform impact
TaskMenu ==
    {[id |-> <<1>>, capabilityIds |-> <<<<1>>, <<2>>>>, impact |-> 1,
      impactMap |-> [c \in {<<2>>} |-> 2]],
     [id |-> <<2>>, capabilityIds |-> <<<<1>>>>, impact |-> 2, impactMap |-> NoImpactMap]}

TaskIds == {t.id : t \in TaskMenu}

\* const newTask: Task = { id, capabilityIds, impact, impactMap, status: TaskStatus.TODO }
NewTask(t) ==
    [id |-> t.id, capabilityIds |-> t.capabilityIds, impact |-> t.impact,
     impactMap |-> t.impactMap, status |-> "TODO"]

\* tasks.find(t => t.id === taskId): the place of the first task with that
\* id, 0 for undefined
FindTask(ts, taskId) ==
    IF \E x \in 1..Len(ts) : ts[x].id = taskId
    THEN CHOOSE x \in 1..Len(ts) : ts[x].id = taskId /\ \A y \in 1..(x - 1) : ts[y].id # taskId
    ELSE 0

\* a credit that ignores the impactMap
ImpactOnUniform(task, capId) == task.impact

\* task.impactMap?.[cap.id] ?? task.impact
ImpactOn(task, capId) ==
    IF capId \in DOMAIN task.impactMap THEN task.impactMap[capId] ELSE task.impact

\* a completion that asks only whether the task exists
handleCompleteTaskAnyStatus(caps, ts, taskId) ==
    LET x == FindTask(ts, taskId)
    IN  IF x = 0 THEN [tasks |-> ts, capabilities |-> caps]
        ELSE [tasks |-> [y \in 1..Len(ts) |->
                            IF ts[y].id = taskId THEN [ts[y] EXCEPT !.status = "COMPLETED"]
                            ELSE ts[y]],
              capabilities |-> [i \in 1..Len(caps) |->
                            IF caps[i].id \in Range(ts[x].capabilityIds)
                            THEN [caps[i] EXCEPT !.score = @ + ImpactOn(ts[x], caps[i].id)]
                            ELSE caps[i]]]

\* what handleCompleteTask(taskId) sets `tasks` and `capabilities` to
handleCompleteTask(caps, ts, taskId) ==
    LET x == FindTask(ts, taskId)
    IN  IF x = 0 \/ ts[x].status # "TODO" THEN [tasks |-> ts, capabilities |-> caps]
        ELSE [tasks |-> [y \in 1..Len(ts) |->
                            IF ts[y].id = taskId THEN [ts[y] EXCEPT !.status = "COMPLETED"]
                            ELSE ts[y]],
              capabilities |-> [i \in 1..Len(caps) |->
                            IF caps[i].id \in Range(ts[x].capabilityIds)
                            THEN [caps[i] EXCEPT !.score = @ + ImpactOn(ts[x], caps[i].id)]
                            ELSE caps[i]]]

\* prev.map(t => t.id === taskId ? { ...t, status: TaskStatus.CANCELED } : t)
handleCancelTask(ts, taskId) ==
    [y \in 1..Len(ts) |->
        IF ts[y].id = taskId THEN [ts[y] EXCEPT !.status = "CANCELED"] ELSE ts[y]]

\* prev.filter(t => t.id !== taskId)
handleDeleteTask(ts, taskId) == SelectSeq(ts, LAMBDA t : t.id # taskId)

\* an addition that appends the capability where its constructor put it
handleAddCapabilityUnplaced(caps, id, color) == caps \o <<Capability(id, color, 0)>>

\* updateCapabilitiesLayout([...capabilities, newCap])
handleAddCapability(caps, id, color) ==
    updateCapabilitiesLayout(caps \o <<Capability(id, color, 0)>>)

\* updateCapabilitiesLayout(capabilities.filter(c => c.id !== id))
handleRemoveCapability(caps, id) ==
    updateCapabilitiesLayout(SelectSeq(caps, LAMBDA c : c.id # id))

\* a handler may run: always in the App on its own; in front of a scene
\* while fewer than MaxLag handlers have run since the last render that the
\* model looks at (React renders after every handler; a render in between
\* changes what the hooks keep, never what a hook computes)
Ready == pc = "app" \/ (pc = "scene" /\ memo.pending < MaxLag)

\* a handler has run: what was rendered stays as it is until SceneContent
\* runs again
Handled ==
    /\ pc' = pc
    /\ memo' = IF pc = "scene" THEN [memo EXCEPT !.pending = @ + 1] ELSE memo
    /\ UNCHANGED <<nodes, unit, graph, ret>>

HandleAddTask ==
    /\ Ready
    /\ Len(tasks) < MaxTasks
    /\ \E t \in TaskMenu :
          /\ FindTask(tasks, t.id) = 0
          /\ tasks' = <<NewTask(t)>> \o tasks
          /\ call' = [fn |-> "handleAddTask", taskId |-> t.id]
    /\ UNCHANGED <<capabilities, settings>>
    /\ Handled

HandleCompleteTask ==
    /\ Ready
    /\ \E taskId \in TaskIds :
          LET after == handleCompleteTask(capabilities, tasks, taskId)
          IN  /\ \A i \in 1..Len(after.capabilities) : after.capabilities[i].score <= MaxCredit
              /\ tasks' = after.tasks
              /\ capabilities' = after.capabilities
              /\ call' = [fn |-> "handleCompleteTask", taskId |-> taskId]
    /\ UNCHANGED settings
    /\ Handled

HandleCancelTask ==
    /\ Ready
    /\ \E taskId \in TaskIds :
          /\ tasks' = handleCancelTask(tasks, taskId)
          /\ call' = [fn |-> "handleCancelTask", taskId |-> taskId]
    /\ UNCHANGED <<capabilities, settings>>
    /\ Handled

HandleDeleteTask ==
    /\ Ready
    /\ \E taskId \in TaskIds :
          /\ tasks' = handleDeleteTask(tasks, taskId)
          /\ call' = [fn |-> "handleDeleteTask", taskId |-> taskId]
    /\ UNCHANGED <<capabilities, settings>>
    /\ Handled

HandleAddCapability ==
    /\ Ready
    /\ Len(capabilities) < MaxCaps
    /\ \E id \in NewIds, color \in NewColors :
          /\ \A i \in 1..Len(capabilities) : capabilities[i].id # id
          /\ capabilities' = handleAddCapability(capabilities, id, color)
          /\ call' = [fn |-> "handleAddCapability", id |-> id]
    /\ UNCHANGED <<tasks, settings>>
    /\ Handled

HandleRemoveCapability ==
    /\ Ready
    /\ \E i \in 1..Len(capabilities) :
          /\ capabilities' = handleRemoveCapability(capabilities, capabilities[i].id)
          /\ call' = [fn |-> "handleRemoveCapability", id |-> capabilities[i].id]
    /\ UNCHANGED <<tasks, settings>>
    /\ Handled

HandleReset ==
    /\ Ready
    /\ tasks' = <<>>
    /\ settings' = DEFAULT_VISUALS
    /\ capabilities' = updateCapabilitiesLayout(INITIAL_CAPS_EN)
    /\ call' = [fn |-> "handleReset"]
    /\ Handled

\* the App after its first load with nothing saved
InitApp ==
    /\ capabilities = updateCapabilitiesLayout(INITIAL_CAPS_EN)
    /\ tasks = <<>>
    /\ settings = DEFAULT_VISUALS
    /\ nodes = <<>>
    /\ unit = CoarseUnit
    /\ graph = EmptyGraph
    /\ pc = "app"
    /\ call = NoCall
    /\ ret = <<>>
    /\ memo = NoMemo

NextApp ==
    \/ HandleAddTask \/ HandleCompleteTask \/ HandleCancelTask \/ HandleDeleteTask
    \/ HandleAddCapability \/ HandleRemoveCapability \/ HandleReset

SpecApp == InitApp /\ [][NextApp]_vars

----------------------------------------------------------------------------
(* The scene in front of the App: SceneContent renders the capabilities and
   settings of the moment through the useMemo hooks of SceneContent (nodes),
   useGraphData and SkillMesh (meshData).  A hook computes anew when an entry
   of its dependency list differs from the one of the last render, and hands
   out the value it kept otherwise.  Dependencies are compared by value: the
   handlers build new arrays and objects and never write into old ones, so a
   dependency that React finds identical has the same value.  geometryKey
   depends on all that it reads and is computed at every render. *)

\* [capabilities, settings.coreRadius, settings.scoreScale, settings.barBaseLength]
NodesDeps(caps, s) == <<caps, s.coreRadius, s.scoreScale, s.barBaseLength>>

\* a dependency list without the neighbour count
GraphDepsNoNeighbors(ns, s) == <<ns, s.connectionStyle, s.connectionMode>>

\* [nodes, settings.connectionStyle, settings.connectionNeighbors, settings.connectionMode]
GraphDeps(ns, s) == <<ns, s.connectionStyle, s.connectionNeighbors, s.connectionMode>>

\* [faces, fillMesh, fillColorMode, fillSolidColor, connectionStyle, coreColor]
MeshDeps(faces, s) ==
    <<faces, s.fillMesh, s.fillColorMode, s.fillSolidColor, s.connectionStyle, s.coreColor>>

\* updateVisual(key, value) for the connection mode and the neighbour count
VisualUpdates(s) ==
    {[s EXCEPT !.connectionMode = m] : m \in {"auto", "fixed"}}
    \cup {[s EXCEPT !.connectionNeighbors = k] : k \in {2, 3}}

UpdateVisual ==
    /\ Ready
    /\ \E s \in VisualUpdates(settings) :
          /\ s # settings
          /\ settings' = s
    /\ call' = [fn |-> "updateVisual"]
    /\ UNCHANGED <<capabilities, tasks>>
    /\ Handled

SceneContent ==
    /\ pc = "scene"
    /\ LET nodesDeps == NodesDeps(capabilities, settings)
           nodesNow == IF memo.nodes = nodesDeps THEN nodes
                       ELSE SceneNodes(capabilities, settings)
           graphDeps == GraphDeps(nodesNow, settings)
           graphNow == IF memo.graph = graphDeps THEN graph
                       ELSE useGraphData(nodesNow, unit, settings)
           meshDeps == MeshDeps(graphNow.faces, settings)
           meshNow == IF memo.mesh = meshDeps THEN ret.meshData
                      ELSE meshData(graphNow.faces, settings)
       IN  /\ nodes' = nodesNow
           /\ graph' = graphNow
           /\ ret' = [geometryKey |-> geometryKey(capabilities, settings),
                      meshData |-> meshNow]
           /\ memo' = [pending |-> 0, nodes |-> nodesDeps, graph |-> graphDeps,
                       mesh |-> meshDeps]
    /\ UNCHANGED <<unit, settings, pc, call, capabilities, tasks>>

\* the App with the straight connection style chosen and one task added,
\* before the scene is rendered for the first time
InitRender ==
    /\ capabilities = updateCapabilitiesLayout(INITIAL_CAPS_EN)
    /\ tasks = <<NewTask(CHOOSE t \in TaskMenu : t.id = <<2>>)>>
    /\ settings = [DEFAULT_VISUALS EXCEPT !.connectionStyle = "straight"]
    /\ nodes = <<>>
    /\ unit = CoarseUnit
    /\ graph = EmptyGraph
    /\ pc = "scene"
    /\ call = NoCall
    /\ ret = [geometryKey |-> <<>>, meshData |-> Null]
    /\ memo = [NoMemo EXCEPT !.pending = 1]

NextRender ==
    \/ HandleAddCapability \/ HandleRemoveCapability \/ HandleCompleteTask
    \/ UpdateVisual \/ SceneContent

SpecRender == InitRender /\ [][NextRender]_vars

----------------------------------------------------------------------------
(* What the properties speak of *)

N == Len(nodes)

\* the graph in `graph` was built by computeConvexHull
HullRun ==
    pc = "done" /\ settings.connectionStyle # "none" /\ settings.connectionMode = "auto"

\* the graph in `graph` was built by computeNearestNeighborGraph
KnnRun ==
    pc = "done" /\ settings.connectionStyle # "none" /\ settings.connectionMode # "auto"

IndexTriples == {t \in (1..N) \X (1..N) \X (1..N) : t[1] < t[2] /\ t[2] < t[3]}

IndexPairs == {q \in (1..N) \X (1..N) : q[1] < q[2]}

\* faces and edges of a graph as unordered sets of node ids
FaceIdSets(g) == {Range(g.faces[x].nodeIds) : x \in 1..Len(g.faces)}

EdgeIdSets(g) == {{g.edges[x].nodeAId, g.edges[x].nodeBId} : x \in 1..Len(g.edges)}

\* the triple of nodes i < j < k is among the emitted faces
FaceEmitted(i, j, k) ==
    \E x \in 1..Len(graph.faces) :
        graph.faces[x].nodeIds = <<nodes[i].id, nodes[j].id, nodes[k].id>>

\* the cross product of the two edge vectors of triple (i, j, k): a normal
\* of the plane through the three positions, zero when there is no such plane
PlaneNormal(i, j, k) ==
    crossVectors(subVectors(nodes[j].pos, nodes[i].pos), subVectors(nodes[k].pos, nodes[i].pos))

Degenerate(i, j, k) == PlaneNormal(i, j, k) = <<0, 0, 0>>

\* |PlaneNormal| times the signed distance of node m to that plane
PlaneDot(i, j, k, m) == dotVectors(PlaneNormal(i, j, k), subVectors(nodes[m].pos, nodes[i].pos))

\* the distance of node m to the plane of (i, j, k) is more than 1e-4:
\* |PlaneDot| / |PlaneNormal| > epsNum / epsDen
BeyondEpsilon(i, j, k, m) ==
    LET len2 == dotVectors(PlaneNormal(i, j, k), PlaneNormal(i, j, k))
        lhs == Abs(PlaneDot(i, j, k, m)) * unit.epsDen
    IN  /\ len2 # 0
        /\ (lhs > 46340 \/ lhs * lhs > unit.epsNum * unit.epsNum * len2)

\* all nodes other than i, j, k that are beyond epsilon lie on one side
OneSided(i, j, k) ==
    \A m1, m2 \in (1..N) \ {i, j, k} :
        BeyondEpsilon(i, j, k, m1) /\ BeyondEpsilon(i, j, k, m2)
            => Sign(PlaneDot(i, j, k, m1)) = Sign(PlaneDot(i, j, k, m2))

\* the nodes sit where the layout puts N capabilities, whatever their scores
AtLayout ==
    /\ unit = CoarseUnit
    /\ \E score \in [1..N -> 0..MaxScore] :
          nodes = SceneNodes(updateCapabilitiesLayout(
                      [i \in 1..N |-> Capability(nodes[i].id, nodes[i].color, score[i])]), settings)

IndexOrders(n) == {f \in [1..n -> 1..n] : \A a, b \in 1..n : a # b => f[a] # f[b]}

Permuted(ns, f) == [i \in 1..Len(ns) |-> ns[f[i]]]

----------------------------------------------------------------------------
(* C1: in hull mode with at least 4 nodes, a triple i < j < k whose positions
   span a plane is emitted as a face if and only if the other nodes whose
   distance to that plane exceeds 1e-4 all lie on the same side of it; nodes
   within the epsilon neither fix the side nor disqualify the triple. *)
C1_FaceIffOneSided ==
    (HullRun /\ N >= 4) =>
        \A t \in IndexTriples :
            ~Degenerate(t[1], t[2], t[3])
                => (FaceEmitted(t[1], t[2], t[3]) <=> OneSided(t[1], t[2], t[3]))

\* five nodes: one triple is rejected, and one is emitted although a node
\* off its plane, within the epsilon, lies opposite a node beyond it
C1_Witness ==
    /\ HullRun /\ N = 5
    /\ \E t \in IndexTriples : ~Degenerate(t[1], t[2], t[3]) /\ ~FaceEmitted(t[1], t[2], t[3])
    /\ \E t \in IndexTriples :
          /\ ~Degenerate(t[1], t[2], t[3])
          /\ FaceEmitted(t[1], t[2], t[3])
          /\ \E m1, m2 \in (1..N) \ {t[1], t[2], t[3]} :
                /\ ~BeyondEpsilon(t[1], t[2], t[3], m1)
                /\ BeyondEpsilon(t[1], t[2], t[3], m2)
                /\ Sign(PlaneDot(t[1], t[2], t[3], m1)) = -Sign(PlaneDot(t[1], t[2], t[3], m2))
                /\ PlaneDot(t[1], t[2], t[3], m1) # 0

(* C2: hull mode on the 4 nodes at the layout(4) tetrahedron positions gives
   exactly 4 faces and exactly 6 edges. *)
C2_TetrahedronFourFacesSixEdges ==
    (HullRun /\ N = 4 /\ AtLayout) => Len(graph.faces) = 4 /\ Len(graph.edges) = 6

(* C3: for every permutation of the node list, hull mode yields the same set
   of faces and the same set of edges, as unordered sets of node ids. *)
C3_HullOrderInvariant ==
    HullRun =>
        \A f \in IndexOrders(N) :
            LET other == computeConvexHull(Permuted(nodes, f), unit, settings.connectionStyle)
            IN  FaceIdSets(other) = FaceIdSets(graph) /\ EdgeIdSets(other) = EdgeIdSets(graph)

(* C4: in hull mode a triple whose positions are coincident or collinear
   (zero cross product) is never emitted as a face. *)
C4_DegenerateTripleSkipped ==
    (HullRun /\ N >= 4) =>
        \A t \in IndexTriples : Degenerate(t[1], t[2], t[3]) => ~FaceEmitted(t[1], t[2], t[3])

(* C5: hull mode with fewer than 4 nodes returns an empty edge list and an
   empty face list. *)
C5_HullBelowFourEmpty ==
    (HullRun /\ N < 4) => graph.edges = <<>> /\ graph.faces = <<>>

\* three nodes that span a plane, handed to the hull
C5_Witness ==
    HullRun /\ N = 3 /\ ~Degenerate(1, 2, 3) /\ graph = EmptyGraph

----------------------------------------------------------------------------
(* what computeNearestNeighborGraph works with, for the nodes and settings
   of the current state *)

\* effectiveNeighbors
KEff == EffectiveNeighbors(N, settings.connectionNeighbors)

\* the ids in the `neighbors` list of node a
SelectedIds(a) ==
    LET neighbors == Neighbors(nodes, a, KEff)
    IN  {neighbors[x].id : x \in 1..Len(neighbors)}

\* symmetricAdj when the first forEach is over
Adj == SymmetricAdj(KnnVisits(nodes, KEff))

Adjacent(adj, x, y) == <<x, y>> \in adj /\ <<y, x>> \in adj

\* the requested count brought into [1, N-1], written out case by case
Clamped(k) == IF k < 1 THEN 1 ELSE IF k > N - 1 THEN N - 1 ELSE k

(* C6: in k-NN mode with at least 2 nodes, each node A selects k_eff other
   nodes, no unselected node is strictly closer to A than a selected one
   (ties go to the node earlier in the input), and for every selected B the
   edge {A, B} is in the edge set and B and A are in each other's adjacency. *)
C6_NearestSelectedAndSymmetric ==
    (KnnRun /\ N >= 2) =>
        LET adj == Adj
            emitted == EdgeIdSets(graph)
        IN  \A a \in 1..N :
                LET selected == SelectedIds(a)
                IN  /\ Cardinality(selected) = KEff
                    /\ nodes[a].id \notin selected
                    /\ \A b, c \in (1..N) \ {a} :
                          (nodes[b].id \in selected /\ nodes[c].id \notin selected)
                              => LET db == distanceToSq(nodes[a].pos, nodes[b].pos)
                                     dc == distanceToSq(nodes[a].pos, nodes[c].pos)
                                 IN  db < dc \/ (db = dc /\ b < c)
                    /\ \A b \in 1..N :
                          nodes[b].id \in selected
                              => /\ {nodes[a].id, nodes[b].id} \in emitted
                                 /\ Adjacent(adj, nodes[a].id, nodes[b].id)

(* C7: with unique ids and requested neighbour count N-1, k-NN mode gives
   exactly the edges of the complete graph: one edge for each of the
   N(N-1)/2 unordered pairs of distinct nodes and no other edge. *)
C7_AllNeighborsCompleteGraph ==
    (KnnRun /\ settings.connectionNeighbors = N - 1) =>
        /\ EdgeIdSets(graph) = {{nodes[q[1]].id, nodes[q[2]].id} : q \in IndexPairs}
        /\ Len(graph.edges) = (N * (N - 1)) \div 2

(* C8: in k-NN mode with at least 2 nodes the effective neighbour count is
   the requested count clamped into [1, N-1], for requests <= 0 and >= N
   too, and each node selects exactly that many neighbours. *)
C8_NeighborCountClamped ==
    (KnnRun /\ N >= 2) =>
        /\ KEff \in 1..(N - 1)
        /\ KEff = Clamped(settings.connectionNeighbors)
        /\ \A a \in 1..N : Len(Neighbors(nodes, a, KEff)) = KEff

\* a request of at least N, clamped: every node selects all the others
C8_Witness ==
    /\ KnnRun /\ N >= 3
    /\ settings.connectionNeighbors >= N
    /\ KEff = N - 1
    /\ \A a \in 1..N : Cardinality(SelectedIds(a)) = N - 1

(* C9: in k-NN mode the face set is exactly the set of unordered triples of
   distinct nodes that are pairwise adjacent in the symmetric adjacency, and
   each such triple is emitted exactly once. *)
C9_FacesAreAdjacentTriples ==
    KnnRun =>
        LET adj == Adj
            triangles == {{nodes[t[1]].id, nodes[t[2]].id, nodes[t[3]].id} : t \in
                            {t \in IndexTriples :
                                /\ Adjacent(adj, nodes[t[1]].id, nodes[t[2]].id)
                                /\ Adjacent(adj, nodes[t[2]].id, nodes[t[3]].id)
                                /\ Adjacent(adj, nodes[t[1]].id, nodes[t[3]].id)}}
        IN  /\ FaceIdSets(graph) = triangles
            /\ Len(graph.faces) = Cardinality(triangles)

(* C10: in hull and in k-NN mode every pair of nodes of every emitted face
   is an emitted edge of the same graph; in hull mode, conversely, every
   emitted edge is a side of at least one emitted face. *)
C10_FacesAndEdgesAgree ==
    LET emitted == EdgeIdSets(graph)
        faces == FaceIdSets(graph)
    IN  /\ (HullRun \/ KnnRun) =>
              \A f \in faces : \A x, y \in f : x # y => {x, y} \in emitted
        /\ HullRun =>
              \A e \in emitted : \E f \in faces : e \subseteq f

----------------------------------------------------------------------------
(* C11: in hull and in k-NN mode every emitted edge joins two distinct nodes
   of the node list the graph was built from: its two ids differ, both are
   ids of the list, and its two end positions are those two nodes'. *)
C11_EdgeJoinsTwoListedNodes ==
    (HullRun \/ KnnRun) =>
        \A x \in 1..Len(graph.edges) :
            LET e == graph.edges[x]
            IN  /\ e.nodeAId # e.nodeBId
                /\ \E a, b \in 1..N :
                      /\ a # b
                      /\ nodes[a].id = e.nodeAId /\ nodes[b].id = e.nodeBId
                      /\ {e.start, e.end} = {nodes[a].pos, nodes[b].pos}

\* a k-NN edge whose ids were swapped by the sort: it starts at the node
\* named second
C11_Witness ==
    /\ KnnRun /\ N >= 3
    /\ \E x \in 1..Len(graph.edges) :
          /\ graph.edges[x].start # graph.edges[x].end
          /\ graph.edges[x].start = FindNode(nodes, graph.edges[x].nodeBId).pos

(* C12: in hull and in k-NN mode the edge list holds at most one edge per
   unordered pair of nodes, however many faces or neighbour selections share
   the pair. *)
C12_OneEdgePerPair ==
    (HullRun \/ KnnRun) =>
        \A x, y \in 1..Len(graph.edges) :
            x # y => {graph.edges[x].nodeAId, graph.edges[x].nodeBId}
                        # {graph.edges[y].nodeAId, graph.edges[y].nodeBId}

\* two nodes that select each other, with one edge between them
C12_Witness ==
    /\ KnnRun /\ N >= 3
    /\ \E a, b \in 1..N :
          /\ a # b
          /\ nodes[b].id \in SelectedIds(a) /\ nodes[a].id \in SelectedIds(b)
          /\ Cardinality({x \in 1..Len(graph.edges) :
                {graph.edges[x].nodeAId, graph.edges[x].nodeBId} = {nodes[a].id, nodes[b].id}}) = 1

----------------------------------------------------------------------------
(* Angles by value *)

\* two angle expressions of one kind denote the same angle
SameAngle(a, b) == a.kind = b.kind /\ a.num * b.den = b.num * a.den

\* floor(i / goldenRatio), the whole turns in 2 * pi * i / goldenRatio:
\* t <= i / goldenRatio  iff  t * (1 + sqrt 5) <= 2 i  iff  5 t^2 <= (2 i - t)^2
\* with 2 i - t >= 0
GoldenFits(i, t) == 2 * i - t >= 0 /\ 5 * t * t <= (2 * i - t) * (2 * i - t)

GoldenTurns(i) == CHOOSE t \in 0..i : GoldenFits(i, t) /\ ~GoldenFits(i, t + 1)

\* the angle lies in [0, pi]
InInclinationRange(a) ==
    IF a.kind = "pi" THEN 0 <= a.num /\ a.num <= a.den
    ELSE IF a.kind = "acos" THEN -a.den <= a.num /\ a.num <= a.den
    ELSE a.num = 0

\* the angle lies in [0, 2 pi)
InAzimuthRange(a) ==
    IF a.kind = "pi" THEN 0 <= a.num /\ a.num < 2 * a.den
    ELSE IF a.kind = "acos" THEN -a.den <= a.num /\ a.num <= a.den
    ELSE a.num >= 0 /\ GoldenTurns(a.num) = 0

\* distributePointsOnSphere has returned
LayoutReturned == pc = "returned" /\ call.fn = "distributePointsOnSphere"

(* C13: distributePointsOnSphere(N) returns exactly N pairs of angles for
   every N >= 0, the empty sequence for N = 0. *)
C13_LayoutReturnsCountPoints ==
    LayoutReturned =>
        /\ Len(ret) = call.count
        /\ \A x \in 1..Len(ret) : DOMAIN ret[x] = {"phi", "theta"}
        /\ call.count = 0 => ret = <<>>

\* the layout of no capability
C13_Witness == LayoutReturned /\ call.count = 0 /\ ret = <<>>

(* C14: for N in 1..6 the layout is the literal table: N=1 a pole (phi 0);
   N=2 the poles phi 0 and pi; N=3 phi pi/2 at azimuths 0, 2pi/3, 4pi/3;
   N=4 a pole and three points at phi acos(-1/3), azimuths 0, 2pi/3, 4pi/3;
   N=5 the two poles and three points on the equator at 0, 2pi/3, 4pi/3;
   N=6 the two poles and four points on the equator at 0, pi/2, pi, 3pi/2. *)
C14_LayoutTable ==
    LET Pole(x) == SameAngle(ret[x].phi, PiAngle(0, 1))
        Antipole(x) == SameAngle(ret[x].phi, PiAngle(1, 1))
        At(x, phi, num, den) ==
            SameAngle(ret[x].phi, phi) /\ SameAngle(ret[x].theta, PiAngle(num, den))
        equator == PiAngle(1, 2)
        tetra == AcosAngle(-1, 3)
    IN  (LayoutReturned /\ call.count \in 1..6) =>
            /\ Len(ret) = call.count
            /\ call.count = 1 => Pole(1)
            /\ call.count = 2 => Pole(1) /\ Antipole(2)
            /\ call.count = 3 =>
                  At(1, equator, 0, 1) /\ At(2, equator, 2, 3) /\ At(3, equator, 4, 3)
            /\ call.count = 4 =>
                  Pole(1) /\ At(2, tetra, 0, 1) /\ At(3, tetra, 2, 3) /\ At(4, tetra, 4, 3)
            /\ call.count = 5 =>
                  /\ Pole(1) /\ Antipole(2)
                  /\ At(3, equator, 0, 1) /\ At(4, equator, 2, 3) /\ At(5, equator, 4, 3)
            /\ call.count = 6 =>
                  /\ Pole(1) /\ Antipole(2)
                  /\ At(3, equator, 0, 1) /\ At(4, equator, 1, 2)
                  /\ At(5, equator, 1, 1) /\ At(6, equator, 3, 2)

\* the octahedron
C14_Witness ==
    /\ LayoutReturned /\ call.count = 6
    /\ ret[6] = [phi |-> PiAngle(1, 2), theta |-> PiAngle(3, 2)]

(* C15: for every N >= 7 and every index i in 0..N-1 the layout's point i
   has inclination acos(1 - 2(i+0.5)/N) and azimuth (2 pi i / goldenRatio)
   mod 2 pi.  1 - 2(i+0.5)/N = (N - 2i - 1)/N; and since goldenRatio is
   irrational, 2 pi n / goldenRatio equals (2 pi i / goldenRatio) mod 2 pi
   only for n = i with no whole turn in it. *)
C15_SpiralFormula ==
    (LayoutReturned /\ call.count >= 7) =>
        \A i \in 0..(call.count - 1) :
            /\ SameAngle(ret[i + 1].phi, AcosAngle(call.count - 2 * i - 1, call.count))
            /\ ret[i + 1].theta.kind = "golden"
            /\ ret[i + 1].theta.num = i
            /\ GoldenTurns(i) = 0

(* C16: for every N >= 0 and every index of the layout the inclination lies
   in [0, pi] and the azimuth in [0, 2 pi). *)
C16_AnglesInRange ==
    LayoutReturned =>
        \A x \in 1..Len(ret) : InInclinationRange(ret[x].phi) /\ InAzimuthRange(ret[x].theta)

----------------------------------------------------------------------------
\* getVectorFromSpherical has returned
VectorReturned == pc = "returned" /\ call.fn = "getVectorFromSpherical"

\* r * t for a product t of sines and cosines counted in 1/den, in grid steps
OnGrid(radius, t, den) == RoundDiv(radius * CoarseGrid * t, 10 * den)

(* C17: getVectorFromSpherical(r, phi, theta) returns
   (r sin(phi) cos(theta), r cos(phi), r sin(phi) sin(theta)); at phi = 0
   that is (0, r, 0) for every theta. *)
C17_SphericalToCartesian ==
    VectorReturned =>
        /\ ret[1] = OnGrid(call.radius, Sin(call.phi) * Cos(call.theta), 1000 * 1000)
        /\ ret[2] = OnGrid(call.radius, Cos(call.phi), 1000)
        /\ ret[3] = OnGrid(call.radius, Sin(call.phi) * Sin(call.theta), 1000 * 1000)
        /\ SameAngle(call.phi, PiAngle(0, 1)) => ret = <<0, OnGrid(call.radius, 1, 1), 0>>

\* the pole, asked for at an azimuth that is not 0
C17_Witness ==
    /\ VectorReturned
    /\ SameAngle(call.phi, PiAngle(0, 1))
    /\ call.theta.num # 0
    /\ ret[2] > 0 /\ ret[1] = 0 /\ ret[3] = 0

\* getEdgeControlPoint has returned
ControlPointReturned == pc = "returned" /\ call.fn = "getEdgeControlPoint"

(* C18: the control point of positions A and B is the midpoint (A+B)/2
   times 0.7 for the inward curve, times 1.3 for the outward curve, and the
   midpoint itself for the straight style; it is the same for B and A.
   In twentieths of a grid step, 20 * (A+B)/2 * 0.7 = 7 (A+B), and so on. *)
C18_ControlPoint ==
    ControlPointReturned =>
        LET sum == <<call.p1[1] + call.p2[1], call.p1[2] + call.p2[2], call.p1[3] + call.p2[3]>>
            Times(f) == <<f * sum[1], f * sum[2], f * sum[3]>>
        IN  /\ call.style = "curve-in" => ret = Times(7)
            /\ call.style = "curve-out" => ret = Times(13)
            /\ call.style = "straight" => ret = Times(10)
            /\ ret = getEdgeControlPoint(call.p2, call.p1, call.style)

\* an inward control point of two different positions, off the origin
C18_Witness ==
    /\ ControlPointReturned
    /\ call.style = "curve-in"
    /\ call.p1 # call.p2
    /\ ret # <<0, 0, 0>>

----------------------------------------------------------------------------
\* SkillMesh has built its meshData, and there was something to fill
MeshReturned == pc = "returned" /\ call.fn = "SkillMesh" /\ ret # Null

Curved == call.settings.connectionStyle \in {"curve-in", "curve-out"}

(* C19: the tessellation emits exactly 3 vertices per face in the straight
   style and exactly 3 * 12^2 = 432 vertices (144 triangles) per face in a
   curved style, and the colour buffer has as many entries as the position
   buffer. *)
C19_VerticesPerFace ==
    MeshReturned =>
        /\ call.settings.connectionStyle = "straight"
              => Len(ret.positions) = 3 * Len(call.faces)
        /\ Curved => Len(ret.positions) = 432 * Len(call.faces)
        /\ Len(ret.colors) = Len(ret.positions)

\* two curved faces
C19_Witness ==
    /\ MeshReturned /\ Curved
    /\ Len(call.faces) = 2
    /\ Len(ret.positions) = 864

\* the barycentric coordinates of the triangle domain, in twelfths
PatchDomain == {c \in (0..12) \X (0..12) \X (0..12) : c[1] + c[2] + c[3] = 12}

\* P(u,v,w) = u^2 P1 + v^2 P2 + w^2 P3 + 2uv E12 + 2vw E23 + 2wu E31 at
\* (u, v, w) = (i, j, k) / 12, in 1/(20 * 144) of a grid step; the control
\* points E come in twentieths
PatchPoint(face, i, j, k) ==
    [x \in 1..3 |->
        20 * (i * i * face.positions[1][x] + j * j * face.positions[2][x]
                + k * k * face.positions[3][x])
        + 2 * i * j * face.controlPoints[1][x] + 2 * j * k * face.controlPoints[2][x]
        + 2 * k * i * face.controlPoints[3][x]]

\* the triangles of the block of 432 positions that belongs to face x
BlockTriangles(x) ==
    {<<ret.positions[432 * (x - 1) + 3 * y - 2], ret.positions[432 * (x - 1) + 3 * y - 1],
       ret.positions[432 * (x - 1) + 3 * y]>> : y \in 1..144}

(* C20: in a curved style every emitted vertex is the patch point P(u,v,w)
   at barycentric coordinates (i/12, j/12, k/12) with whole i, j, k >= 0 and
   i + j + k = 12; each cell (i, j) emits its 'up' triangle, and its 'down'
   triangle exactly when it is not on the outer edge (i + j + 1 < 12). *)
C20_PatchPointsAndCells ==
    (MeshReturned /\ Curved) =>
        /\ Len(ret.positions) = 432 * Len(call.faces)
        /\ \A x \in 1..Len(call.faces) :
              LET face == call.faces[x]
                  points == {PatchPoint(face, c[1], c[2], c[3]) : c \in PatchDomain}
                  triangles == BlockTriangles(x)
                  Up(i, j) == <<PatchPoint(face, i, j, 12 - i - j),
                                PatchPoint(face, i + 1, j, 11 - i - j),
                                PatchPoint(face, i, j + 1, 11 - i - j)>>
                  Down(i, j) == <<PatchPoint(face, i + 1, j, 11 - i - j),
                                  PatchPoint(face, i + 1, j + 1, 10 - i - j),
                                  PatchPoint(face, i, j + 1, 11 - i - j)>>
              IN  /\ \A y \in (432 * (x - 1) + 1)..(432 * x) : ret.positions[y] \in points
                  /\ \A i \in 0..11 : \A j \in 0..(11 - i) :
                        /\ Up(i, j) \in triangles
                        /\ Down(i, j) \in triangles <=> i + j + 1 < 12

\* a curved face whose corner cell on the outer edge emitted one triangle
\* and whose first cell emitted two
C20_Witness ==
    /\ MeshReturned /\ Curved
    /\ Len(call.faces) >= 1
    /\ Len(ret.positions) = 432 * Len(call.faces)
    /\ ret.positions[1] = PatchPoint(call.faces[1], 0, 0, 12)
    /\ ret.positions[5] = PatchPoint(call.faces[1], 1, 1, 10)
    /\ ret.positions[432] = PatchPoint(call.faces[1], 11, 1, 0)

\* the block of vertices that belongs to face x: 3 in the straight style,
\* 432 in a curved one
BlockSize == IF call.settings.connectionStyle = "straight" THEN 3 ELSE 432

Block(x) == (BlockSize * (x - 1) + 1)..(BlockSize * x)

\* corner q of a face in the units of the buffers: its position and its
\* colour (weight 1 is segments / segments)
CornerPosition(face, q) ==
    scaledVector(face.positions[q],
                 IF call.settings.connectionStyle = "straight" THEN 20 ELSE 20 * 144)

CornerColor(face, q) ==
    scaledVector(face.colors[q],
                 IF call.settings.connectionStyle = "straight" THEN 1 ELSE 12)

(* C21: in gradient colour mode, in the straight and in the curved styles,
   each of the three corners of each face is emitted, and every vertex
   emitted at a corner carries exactly that corner's input colour. *)
C21_GradientCornerColors ==
    (MeshReturned /\ call.settings.fillColorMode = "gradient") =>
        /\ Len(ret.positions) = BlockSize * Len(call.faces)
        /\ Len(ret.colors) = Len(ret.positions)
        /\ \A x \in 1..Len(call.faces) : \A q \in 1..3 :
              LET face == call.faces[x]
                  at == {y \in Block(x) : ret.positions[y] = CornerPosition(face, q)}
              IN  /\ at # {}
                  /\ \A y \in at : ret.colors[y] = CornerColor(face, q)

\* a curved face in gradient mode whose first vertex is corner 3 (w = 1)
\* with the third colour, and whose last vertex is corner 2 (v = 1)
C21_Witness ==
    /\ MeshReturned /\ Curved
    /\ call.settings.fillColorMode = "gradient"
    /\ Len(call.faces) >= 1
    /\ Len(ret.positions) = 432 * Len(call.faces)
    /\ ret.positions[1] = CornerPosition(call.faces[1], 3)
    /\ ret.colors[1] = CornerColor(call.faces[1], 3)
    /\ call.faces[1].colors[3] # call.faces[1].colors[1]
    /\ \E y \in Block(1) : /\ ret.positions[y] = CornerPosition(call.faces[1], 2)
                           /\ ret.colors[y] = CornerColor(call.faces[1], 2)

(* C26: in hull and in k-NN mode every emitted edge has its two node ids in
   ascending order (nodeAId < nodeBId) and every emitted face lists its three
   node ids in ascending order, for any order of the input node list. *)
C26_IdsAscending ==
    pc = "done" =>
        /\ \A x \in 1..Len(graph.edges) :
              StrLess(graph.edges[x].nodeAId, graph.edges[x].nodeBId)
        /\ \A x \in 1..Len(graph.faces) :
              /\ StrLess(graph.faces[x].nodeIds[1], graph.faces[x].nodeIds[2])
              /\ StrLess(graph.faces[x].nodeIds[2], graph.faces[x].nodeIds[3])

(* C29: in hull and in k-NN mode every emitted edge starts at the position
   of the node named by nodeAId and ends at the position of the node named
   by nodeBId. *)
C29_EdgeEndsAtNamedNodes ==
    pc = "done" =>
        \A x \in 1..Len(graph.edges) :
            /\ graph.edges[x].start = FindNode(nodes, graph.edges[x].nodeAId).pos
            /\ graph.edges[x].end = FindNode(nodes, graph.edges[x].nodeBId).pos

(* C23: the label scaler never yields a font size above 1500, for every
   camera distance, every base label size and every minimum label size. *)
C23_FontSizeCeiling ==
    (pc = "returned" /\ call.fn = "useFrame") => ret <= 1500 * HTML_DISTANCE_FACTOR

\* the colour that fills the mesh: the core colour in 'core' mode, the solid
\* colour in 'solid' mode, none in 'gradient' mode
ActiveFillColor(s) ==
    IF s.fillColorMode = "core" THEN s.coreColor
    ELSE IF s.fillColorMode = "solid" THEN s.fillSolidColor
    ELSE <<>>

\* what the fingerprint has to tell apart: the node count and every node's
\* score, and the active style parameters
Fingerprinted(caps, s) ==
    <<[i \in 1..Len(caps) |-> caps[i].score],
      s.coreRadius, s.scoreScale, s.barBaseLength, s.connectionMode,
      s.connectionNeighbors, s.connectionStyle, s.fillColorMode, ActiveFillColor(s),
      s.fillOpacity>>

\* the keys of all the scenes, worked out once
KeyTable == {<<Fingerprinted(c.capabilities, c.settings),
               geometryKey(c.capabilities, c.settings)>> : c \in KeyCalls}

(* C24: the geometryKey of two scenes differs whenever the scenes differ in
   node count, in any node's score (a non-negative integer), or in any active
   style parameter: core radius, score scale, bar base length, connection
   mode, neighbour count, connection style, fill colour mode, active fill
   colour, fill opacity. *)
C24_KeyTellsScenesApart ==
    (pc = "returned" /\ call.fn = "geometryKey") =>
        LET mine == Fingerprinted(call.capabilities, call.settings)
        IN  \A other \in KeyTable : other[1] # mine => other[2] # ret

\* the key of two capabilities with scores 1 and 2, which a key without
\* separators would confuse with that of one capability with score 12
C24_Witness ==
    /\ pc = "returned" /\ call.fn = "geometryKey"
    /\ Len(call.capabilities) = 2
    /\ call.capabilities[1].score = 1 /\ call.capabilities[2].score = 2
    /\ call.settings.fillColorMode = "core"
    /\ call.settings.connectionStyle = "curve-out"
    /\ \E other \in KeyTable : other[1] # Fingerprinted(call.capabilities, call.settings)

----------------------------------------------------------------------------
(* C25: after any sequence of add-capability, remove-capability,
   complete-task and reset operations from the default capability set, the
   capability at list index i has the angles (phi, theta) of
   distributePointsOnSphere(N)[i], N being the number of capabilities. *)
C25_LayoutAfterEveryOperation ==
    LET points == distributePointsOnSphere(Len(capabilities))
    IN  \A i \in 1..Len(capabilities) :
           /\ capabilities[i].phi = points[i].phi
           /\ capabilities[i].theta = points[i].theta

\* capability '5' has moved to index 4 after a removal, with a score on the list
C25_Witness ==
    /\ call.fn = "handleRemoveCapability"
    /\ Len(capabilities) = 4
    /\ capabilities[4].id = <<5>>
    /\ \E i \in 1..4 : capabilities[i].score > 0
    /\ distributePointsOnSphere(4)[4] # distributePointsOnSphere(5)[5]

(* C27: completing a task whose status is TODO adds impactMap[cap], or the
   uniform impact of the task where the map has no value for cap, to the score
   of exactly the capabilities the task lists; every other score, every phi,
   theta, id and colour, and the order and number of capabilities stay. *)
C27_CompletionCreditsListedOnly ==
    [][(/\ call'.fn = "handleCompleteTask"
        /\ \E x \in 1..Len(tasks) : tasks[x].id = call'.taskId /\ tasks[x].status = "TODO")
       => LET task == tasks[FindTask(tasks, call'.taskId)]
              credit(id) == IF id \in DOMAIN task.impactMap THEN task.impactMap[id]
                            ELSE task.impact
          IN  /\ Len(capabilities') = Len(capabilities)
              /\ \A i \in 1..Len(capabilities) :
                    /\ capabilities'[i].id = capabilities[i].id
                    /\ capabilities'[i].color = capabilities[i].color
                    /\ capabilities'[i].phi = capabilities[i].phi
                    /\ capabilities'[i].theta = capabilities[i].theta
                    /\ capabilities'[i].score =
                          IF \E q \in 1..Len(task.capabilityIds) :
                                task.capabilityIds[q] = capabilities[i].id
                          THEN capabilities[i].score + credit(capabilities[i].id)
                          ELSE capabilities[i].score]_vars

\* the task on '1' and '2' has been completed: '1' got the uniform impact,
\* '2' the value of the impactMap, '3' nothing
C27_Witness ==
    /\ call = [fn |-> "handleCompleteTask", taskId |-> <<1>>]
    /\ \E x \in 1..Len(tasks) : tasks[x].id = <<1>> /\ tasks[x].status = "COMPLETED"
    /\ \E i, j, l \in 1..Len(capabilities) :
          /\ capabilities[i].id = <<1>> /\ capabilities[i].score = 1
          /\ capabilities[j].id = <<2>> /\ capabilities[j].score = 2
          /\ capabilities[l].id = <<3>> /\ capabilities[l].score = 0

(* C28: with the calls handled one at a time, a task is credited at most
   once: handleCompleteTask on a task that is missing, COMPLETED or CANCELED
   changes neither the task list nor any capability score. *)
C28_NoSecondCredit ==
    [][(/\ call'.fn = "handleCompleteTask"
        /\ \A x \in 1..Len(tasks) : tasks[x].id = call'.taskId => tasks[x].status # "TODO")
       => /\ tasks' = tasks
          /\ Len(capabilities') = Len(capabilities)
          /\ \A i \in 1..Len(capabilities) :
                capabilities'[i].score = capabilities[i].score]_vars

\* a completion was asked for a task that had been completed and then
\* cancelled: the credit of the first completion is on the list, once
C28_Witness ==
    /\ call = [fn |-> "handleCompleteTask", taskId |-> <<2>>]
    /\ tasks = <<[NewTask(CHOOSE t \in TaskMenu : t.id = <<2>>) EXCEPT !.status = "CANCELED"]>>
    /\ \E i \in 1..Len(capabilities) : capabilities[i].id = <<1>> /\ capabilities[i].score = 2

----------------------------------------------------------------------------
(* C22: the layout, the conversion to Cartesian positions, the graph and the
   tessellation are deterministic and leave no state behind: whatever was
   rendered before, what a render hands out (computed in this render or kept
   by a useMemo from an earlier one) is what a run on the capabilities and
   settings of the moment alone produces. *)
C22_RenderEqualsFreshRun ==
    (pc = "scene" /\ memo.pending = 0)
    => LET points == distributePointsOnSphere(Len(capabilities))
           ns == SceneNodes(capabilities, settings)
           g == useGraphData(ns, unit, settings)
       IN  /\ \A i \in 1..Len(capabilities) :
                  capabilities[i].phi = points[i].phi /\ capabilities[i].theta = points[i].theta
           /\ nodes = ns
           /\ graph = g
           /\ ret.meshData = meshData(g.faces, settings)

\* a render after the fixed mode was chosen: the nodes were kept from the
\* render before, the graph and the mesh were computed anew and differ from
\* those of the auto mode
C22_Witness ==
    /\ pc = "scene" /\ memo.pending = 0
    /\ call.fn = "updateVisual"
    /\ settings.connectionMode = "fixed" /\ settings.connectionNeighbors = 3
    /\ Len(nodes) = 5
    /\ graph.faces # <<>>
    /\ ret.meshData # Null
    /\ graph # useGraphData(nodes, unit, [settings EXCEPT !.connectionMode = "auto"])

(* C30: two scenes reached by add-capability, remove-capability and
   complete-task under any settings that have the same geometryKey have the
   same vertex position and vertex colour buffers.  The two scenes are the
   one of the last render and the one up to MaxLag operations later: a render
   that hands out the geometryKey of the render before hands out its
   meshData too. *)
C30_SameKeySameBuffers ==
    [][ret'.geometryKey = ret.geometryKey => ret'.meshData = ret.meshData]_vars

====
